---------------------------- MODULE Spec2Model ----------------------------
(***************************************************************************)
(* A model of scripts/add-new-bcd.ts of mdn-bcd-collector: the mapping     *)
(* from a BCD identifier path to the JSON file that holds it (getFilePath), *)
(* the in-place tree merge (recursiveAdd) on JavaScript objects, and the   *)
(* traversal that writes every supported feature to its file               *)
(* (traverseFeatures, writeFile).                                          *)
(*                                                                         *)
(* Three specifications share the module:                                  *)
(*   SpecPath      getFilePath applied to one identifier path;             *)
(*   SpecMerge     recursiveAdd applied to objects of a heap, followed by  *)
(*                 mutations of the objects involved;                      *)
(*   SpecTraverse  traverseFeatures over a candidate tree and a directory  *)
(*                 of JSON files.                                          *)
(*                                                                         *)
(* A JSON file is modelled by the value it holds, the keys of an object    *)
(* unordered: the replacer writeFile passes to fs.writeJSON (orderFeatures *)
(* of the BCD package, not part of this repository) is taken to order keys *)
(* only.  JSON.stringify leaves out a property whose value is a function.  *)
(* jsNamespaces is imported from test-builder/javascript.js; its value is  *)
(* taken to be Intl and WebAssembly.                                       *)
(***************************************************************************)
EXTENDS Integers, Sequences, FiniteSets, TLC

VARIABLES
  ident,      \* SpecPath: the argument of getFilePath
  result,     \* SpecPath: what the call returned or threw
  pc,         \* the position of the running specification
  heap,       \* the JavaScript objects: a sequence, an object's address its index
  heapBefore, \* the heap before the last step (history)
  heap0,      \* the heap at the start (history)
  tree,       \* SpecMerge: the address of the tree recursiveAdd is applied to
  pathP,      \* SpecMerge: the path of the first leaf
  pathQ,      \* SpecMerge: the path of the second leaf
  leafP,      \* SpecMerge: the address of the leaf merged at pathP
  leafQ,      \* SpecMerge: the address of the leaf merged at pathQ
  merged,     \* SpecMerge: the merges made so far, "P" and "Q" in their order
  lastOp,     \* SpecMerge: what the last step did
  candidate,  \* SpecTraverse: the candidate tree, as JSON
  files,      \* SpecTraverse: the JSON files of the BCD directory, by relative path
  filesBefore, \* SpecTraverse: the files before the last step (history)
  stack,      \* SpecTraverse: the running calls of traverseFeatures, innermost last
  pending,    \* SpecTraverse: the identifier and node of the writeFile call awaited
  visited,    \* SpecTraverse: the identifiers of the nodes visited, in order (history)
  calls       \* SpecTraverse: the calls of writeFile made, in order (history)

pathVars == <<ident, result>>

mergeVars == <<heap, heapBefore, heap0, tree, pathP, pathQ, leafP, leafQ, merged, lastOp>>

travVars == <<candidate, files, filesBefore, stack, pending, visited, calls>>

(***************************************************************************)
(* Bounds of the model.                                                    *)
(***************************************************************************)
\* The longest identifier path given to getFilePath.
MaxIdentLen == 5

(***************************************************************************)
(* Strings.  A segment is a TLA+ string; its first character is read with  *)
(* SubSeq, and the case conversions are those of JavaScript on ASCII.      *)
(***************************************************************************)
UpperLetters == "ABCDEFGHIJKLMNOPQRSTUVWXYZ"
LowerLetters == "abcdefghijklmnopqrstuvwxyz"

\* s[0] of a non-empty string
CharAt0(s) == SubSeq(s, 1, 1)

LetterIndex(alphabet, c) ==
  IF \E i \in 1..Len(alphabet) : SubSeq(alphabet, i, i) = c
    THEN CHOOSE i \in 1..Len(alphabet) : SubSeq(alphabet, i, i) = c
    ELSE 0

\* String.prototype.toLowerCase on one ASCII character
toLowerCase(c) ==
  LET i == LetterIndex(UpperLetters, c)
  IN  IF i = 0 THEN c ELSE SubSeq(LowerLetters, i, i)

\* String.prototype.toUpperCase on one ASCII character
toUpperCase(c) ==
  LET i == LetterIndex(LowerLetters, c)
  IN  IF i = 0 THEN c ELSE SubSeq(UpperLetters, i, i)

startsWithLowerCase(s) == CharAt0(s) = toLowerCase(CharAt0(s))

startsWithUpperCase(s) == CharAt0(s) = toUpperCase(CharAt0(s))

\* the namespaces exported by test-builder/javascript.js
jsNamespaces == {"Intl", "WebAssembly"}

\* the literal ["css", "html", "svg", "mathml"] of getFilePath
ThreeSegmentAreas == {"css", "html", "svg", "mathml"}

\* Array.prototype.slice(0, n): also what parts.length = n leaves
Take(parts, n) == SubSeq(parts, 1, n)

RECURSIVE JoinWith(_, _)
\* Array.prototype.join(sep), and path.join on segments that hold no
\* separator, "." or ".."
JoinWith(parts, sep) ==
  IF Len(parts) = 0 THEN ""
  ELSE IF Len(parts) = 1 THEN parts[1]
  ELSE parts[1] \o sep \o JoinWith(Tail(parts), sep)

\* a returned value
Return(v) == [threw |-> FALSE, value |-> v]

\* a thrown Error with its message
Throw(msg) == [threw |-> TRUE, value |-> msg]

\* parts[parts.length - 1] += ".json"; return path.join(...parts)
JsonFileOf(parts) ==
  LET n == Len(parts)
  IN  JoinWith([parts EXCEPT ![n] = parts[n] \o ".json"], "/")

\* getFilePath with the truncation of an interface's path left out
getFilePath_NoApiTruncation(id) ==
  IF Len(id) >= 2 /\ id[1] = "api"
    THEN IF startsWithLowerCase(id[2])
           THEN Return(JsonFileOf(<<id[1], "_globals", id[2]>>))
           ELSE Return(JsonFileOf(id))
  ELSE IF Len(id) >= 3 /\ id[1] \in ThreeSegmentAreas
    THEN Return(JsonFileOf(Take(id, 3)))
  ELSE IF Len(id) >= 3 /\ id[1] = "javascript" /\ id[2] = "builtins"
    THEN IF startsWithLowerCase(id[3])
           THEN Return("javascript/builtins/globals.json")
         ELSE IF /\ Len(id) >= 4
                 /\ id[3] # id[4]
                 /\ id[3] \in jsNamespaces
                 /\ startsWithUpperCase(id[4])
           THEN Return(JsonFileOf(Take(id, 4)))
           ELSE Return(JsonFileOf(Take(id, 3)))
  ELSE IF Len(id) >= 2 /\ id[1] = "webassembly"
    THEN Return(JsonFileOf(Take(id, 2)))
  ELSE Throw("Cannot determine file path from BCD path: " \o JoinWith(id, "."))

getFilePath(id) ==
  IF Len(id) >= 2 /\ id[1] = "api"
    THEN IF startsWithLowerCase(id[2])
           THEN Return(JsonFileOf(<<id[1], "_globals", id[2]>>))
           ELSE Return(JsonFileOf(Take(id, 2)))
  ELSE IF Len(id) >= 3 /\ id[1] \in ThreeSegmentAreas
    THEN Return(JsonFileOf(Take(id, 3)))
  ELSE IF Len(id) >= 3 /\ id[1] = "javascript" /\ id[2] = "builtins"
    THEN IF startsWithLowerCase(id[3])
           THEN Return("javascript/builtins/globals.json")
         ELSE IF /\ Len(id) >= 4
                 /\ id[3] # id[4]
                 /\ id[3] \in jsNamespaces
                 /\ startsWithUpperCase(id[4])
           THEN Return(JsonFileOf(Take(id, 4)))
           ELSE Return(JsonFileOf(Take(id, 3)))
  ELSE IF Len(id) >= 2 /\ id[1] = "webassembly"
    THEN Return(JsonFileOf(Take(id, 2)))
  ELSE Throw("Cannot determine file path from BCD path: " \o JoinWith(id, "."))

(***************************************************************************)
(* JavaScript values.  A value is a primitive or a reference to an object  *)
(* of the heap; an object holds its own enumerable properties in insertion *)
(* order.  A plain object inherits from Object.prototype and a function    *)
(* from Function.prototype: of the inherited properties the model keeps    *)
(* toString, the one inherited name among the segments it tries.           *)
(***************************************************************************)
Ref(a) == [t |-> "ref", a |-> a]

Prim(v) == [t |-> "prim", v |-> v]

Undefined == Prim("undefined")

\* the object literal {}
NewObject == [kind |-> "object", keys |-> <<>>, vals |-> <<>>]

\* a built-in function object, with no enumerable property of its own
NewFunction == [kind |-> "function", keys |-> <<>>, vals |-> <<>>]

\* the address of the function Object.prototype.toString
ObjectProtoToString == 1

\* the address of the function Function.prototype.toString
FunctionProtoToString == 2

\* the heap of a fresh realm: the built-in functions
BuiltinHeap == <<NewFunction, NewFunction>>

\* the address at which the prototype chain of an object of this kind holds
\* property k, 0 when it holds none
InheritedAt(kind, k) ==
  IF k # "toString" THEN 0
  ELSE IF kind = "function" THEN FunctionProtoToString
  ELSE ObjectProtoToString

HasOwn(h, a, k) == k \in DOMAIN h[a].vals

\* k in data
HasProperty(h, a, k) == HasOwn(h, a, k) \/ InheritedAt(h[a].kind, k) # 0

\* data[k]
GetProp(h, a, k) ==
  IF HasOwn(h, a, k) THEN h[a].vals[k]
  ELSE IF InheritedAt(h[a].kind, k) # 0 THEN Ref(InheritedAt(h[a].kind, k))
  ELSE Undefined

\* data[k] = v
SetProp(h, a, k, v) ==
  LET o == h[a]
      o2 == [kind |-> o.kind,
             keys |-> IF k \in DOMAIN o.vals THEN o.keys ELSE Append(o.keys, k),
             vals |-> (k :> v) @@ o.vals]
  IN  [h EXCEPT ![a] = o2]

\* the heap with one more object, whose address is the new length
Alloc(h, o) == Append(h, o)

\* no copy made: the tree is given the leaf object itself
ObjectAssignEmpty_Alias(h, obj) == [h |-> h, v |-> obj]

\* Object.assign({}, obj): a new object with the own properties of obj (none
\* when obj is undefined); the heap afterwards and the reference to the copy
ObjectAssignEmpty(h, obj) ==
  LET copy == IF obj.t = "ref"
                THEN [kind |-> "object", keys |-> h[obj.a].keys,
                      vals |-> h[obj.a].vals]
                ELSE NewObject
      h1 == Alloc(h, copy)
  IN  [h |-> h1, v |-> Ref(Len(h1))]

RECURSIVE recursiveAdd_AlwaysEmpty(_, _, _, _, _)
\* recursiveAdd that recurses into {} whatever the tree holds at the segment
recursiveAdd_AlwaysEmpty(h, id, i, data, obj) ==
  LET part == id[i]
  IN  IF data.t # "ref" THEN [h |-> h, threw |-> TRUE]
      ELSE IF i < Len(id)
        THEN LET h1 == Alloc(h, NewObject)
                 child == Ref(Len(h1))
                 r == recursiveAdd_AlwaysEmpty(h1, id, i + 1, child, obj)
             IN  IF r.threw THEN r
                 ELSE [h |-> SetProp(r.h, data.a, part, child), threw |-> FALSE]
        ELSE LET c == ObjectAssignEmpty(h, obj)
             IN  [h |-> SetProp(c.h, data.a, part, c.v), threw |-> FALSE]

RECURSIVE recursiveAdd(_, _, _, _, _)
\* recursiveAdd(ident, i, data, obj) on heap h, with i counted from 1; data
\* and obj are values.  Gives the heap afterwards and whether a TypeError
\* was thrown (the in operator, or an assignment, on a primitive).
recursiveAdd(h, id, i, data, obj) ==
  LET part == id[i]
  IN  IF data.t # "ref" THEN [h |-> h, threw |-> TRUE]
      ELSE IF i < Len(id)
        THEN LET present == HasProperty(h, data.a, part)
                 h1 == IF present THEN h ELSE Alloc(h, NewObject)
                 child == IF present THEN GetProp(h, data.a, part) ELSE Ref(Len(h1))
                 r == recursiveAdd(h1, id, i + 1, child, obj)
             IN  IF r.threw THEN r
                 ELSE [h |-> SetProp(r.h, data.a, part, child), threw |-> FALSE]
        ELSE LET c == ObjectAssignEmpty(h, obj)
             IN  [h |-> SetProp(c.h, data.a, part, c.v), threw |-> FALSE]

(***************************************************************************)
(* JSON.  A JSON value is a primitive, or an object: a function from keys  *)
(* to JSON values.  The order of an object's keys in a file is not kept:   *)
(* it is set by the replacer orderFeatures of the BCD package.             *)
(***************************************************************************)
JPrim(v) == [t |-> "prim", v |-> v]

JObj(m) == [t |-> "obj", m |-> m]

JArr(e) == [t |-> "arr", e |-> e]

JEmpty == JObj(<<>>)

\* the property name of the element at position i of an array, i from 1
IndexKey(i) == <<"0", "1", "2", "3">>[i]

\* The longest chain of references followed when a value is read out of the
\* heap; what lies deeper reads as the mark "deep".
MaxDepth == 8

RECURSIVE DeepFrom(_, _, _)
\* the value v of heap h with every reference followed: an object as the
\* function from its own keys to their values, a function object marked "fn"
DeepFrom(h, v, fuel) ==
  IF v.t = "prim" THEN JPrim(v.v)
  ELSE IF fuel = 0 THEN JPrim("deep")
  ELSE LET o == h[v.a]
       IN  IF o.kind = "array"
             THEN JArr([i \in 1..Len(o.keys) |->
                          DeepFrom(h, o.vals[IndexKey(i)], fuel - 1)])
             ELSE [t |-> IF o.kind = "function" THEN "fn" ELSE "obj",
                   m |-> [k \in DOMAIN o.vals |-> DeepFrom(h, o.vals[k], fuel - 1)]]

Deep(h, v) == DeepFrom(h, v, MaxDepth)

RECURSIVE Stringify(_)
\* JSON.stringify followed by JSON.parse on a value read out of the heap:
\* a property whose value is a function or undefined is left out
Stringify(d) ==
  IF d.t = "arr" THEN JArr([i \in 1..Len(d.e) |-> Stringify(d.e[i])])
  ELSE IF d.t # "obj" THEN d
  ELSE LET kept == {k \in DOMAIN d.m :
                      d.m[k].t # "fn" /\ d.m[k] # JPrim("undefined")}
       IN  JObj([k \in kept |-> Stringify(d.m[k])])

\* The order in which the keys of a JSON text are taken to stand: keys of
\* this list in its order.
KeyOrder ==
  <<"__compat", "support", "status", "chrome", "firefox", "version_added",
    "version_removed", "deprecated", "old", "a", "api", "A", "m", "toString",
    "n", "zzz", "x", "webassembly", "W">>

RECURSIVE KeysInOrder(_, _)
\* the keys of S in the order of ks
KeysInOrder(S, ks) ==
  IF ks = <<>> THEN <<>>
  ELSE IF Head(ks) \in S THEN <<Head(ks)>> \o KeysInOrder(S, Tail(ks))
  ELSE KeysInOrder(S, Tail(ks))

\* the children of a JSON object or array, in the order of their keys
ChildKeys(j) ==
  IF j.t = "arr" THEN [i \in 1..Len(j.e) |-> IndexKey(i)]
  ELSE KeysInOrder(DOMAIN j.m, KeyOrder)

ChildValues(j) ==
  IF j.t = "arr" THEN j.e
  ELSE [i \in 1..Len(ChildKeys(j)) |-> j.m[ChildKeys(j)[i]]]

RECURSIVE JsonSize(_)
RECURSIVE SizeOfFirst(_, _)
\* the number of objects of the first n of the JSON values cs
SizeOfFirst(cs, n) ==
  IF n = 0 THEN 0 ELSE SizeOfFirst(cs, n - 1) + JsonSize(cs[n])

\* the number of objects and arrays of a JSON value
JsonSize(j) ==
  IF j.t = "prim" THEN 0
  ELSE 1 + SizeOfFirst(ChildValues(j), Len(ChildValues(j)))

RECURSIVE LoadAt(_, _)
RECURSIVE LoadChildrenAt(_, _, _)
\* the objects of the children of cs from position i on, the objects of the
\* first child placed after address base
LoadChildrenAt(cs, base, i) ==
  IF i > Len(cs) THEN <<>>
  ELSE (IF cs[i].t = "prim" THEN <<>>
        ELSE LoadAt(cs[i], base + SizeOfFirst(cs, i - 1)))
       \o LoadChildrenAt(cs, base, i + 1)

\* the objects that JSON.parse creates for the object or array j: j itself at
\* address base + 1, then the objects of its children, child after child
LoadAt(j, base) ==
  LET ks == ChildKeys(j)
      cs == ChildValues(j)
      valueOf(i) == IF cs[i].t = "prim" THEN Prim(cs[i].v)
                    ELSE Ref(base + 1 + SizeOfFirst(cs, i - 1) + 1)
      root == [kind |-> IF j.t = "arr" THEN "array" ELSE "object",
               keys |-> ks,
               vals |-> [k \in {ks[i] : i \in 1..Len(ks)} |->
                           valueOf(CHOOSE i \in 1..Len(ks) : ks[i] = k)]]
  IN  <<root>> \o LoadChildrenAt(cs, base + 1, 1)

\* JSON.parse: the heap with the objects of JSON value j added, and the value
LoadJson(h, j) ==
  IF j.t = "prim" THEN [h |-> h, v |-> Prim(j.v)]
  ELSE [h |-> h \o LoadAt(j, Len(h)), v |-> Ref(Len(h) + 1)]

(***************************************************************************)
(* SpecPath: one call of getFilePath.                                      *)
(***************************************************************************)
\* The segments tried at each position of an identifier path.
SegmentsAt(i) ==
  CASE i = 1 -> {"api", "css", "svg", "javascript", "webassembly", "unknownarea"}
    [] i = 2 -> {"builtins", "AudioContext", "caches", "properties"}
    [] i = 3 -> {"Intl", "Array", "globalThis", "color"}
    [] i = 4 -> {"DateTimeFormat", "Intl", "from", "@@toStringTag"}
    [] OTHER -> {"format"}

RECURSIVE PathsOfLen(_)
PathsOfLen(n) ==
  IF n = 0 THEN {<<>>}
  ELSE {Append(p, s) : p \in PathsOfLen(n - 1), s \in SegmentsAt(n)}

IdentPaths == UNION {PathsOfLen(n) : n \in 1..MaxIdentLen}

NotCalled == [threw |-> FALSE, value |-> ""]

\* the variables of SpecMerge while another specification runs
MergeIdle ==
  /\ heap0 = <<>>
  /\ tree = 0
  /\ pathP = <<>>
  /\ pathQ = <<>>
  /\ leafP = 0
  /\ leafQ = 0
  /\ merged = <<>>
  /\ lastOp = "none"

\* the variables of SpecTraverse while another specification runs
TraverseIdle ==
  /\ candidate = JEmpty
  /\ files = <<>>
  /\ filesBefore = <<>>
  /\ stack = <<>>
  /\ pending = <<>>
  /\ visited = <<>>
  /\ calls = <<>>

InitPath ==
  /\ ident \in IdentPaths
  /\ result = NotCalled
  /\ pc = "path"
  /\ heap = <<>>
  /\ heapBefore = <<>>
  /\ MergeIdle
  /\ TraverseIdle

CallGetFilePath ==
  /\ pc = "path"
  /\ result' = getFilePath(ident)
  /\ pc' = "path_done"
  /\ UNCHANGED <<ident, mergeVars, travVars>>

NextPath == CallGetFilePath

vars == <<pathVars, pc, mergeVars, travVars>>

SpecPath == InitPath /\ [][NextPath]_vars

(***************************************************************************)
(* Properties of getFilePath, checked under SpecPath.                      *)
(***************************************************************************)
StartsWithLowerLetter(s) == LetterIndex(LowerLetters, CharAt0(s)) # 0

StartsWithUpperLetter(s) == LetterIndex(UpperLetters, CharAt0(s)) # 0

\* the outcome of the first matching rule, as C1 words the rules: a segment
\* "starts with a lowercase letter" when its first character is one of a-z,
\* "starts with an uppercase letter" when it is one of A-Z
C1_Outcome(id) ==
  IF Len(id) >= 2 /\ id[1] = "api"
    THEN IF StartsWithLowerLetter(id[2])
           THEN Return("api/_globals/" \o id[2] \o ".json")
           ELSE Return("api/" \o id[2] \o ".json")
  ELSE IF Len(id) >= 3 /\ id[1] \in {"css", "html", "svg", "mathml"}
    THEN Return(id[1] \o "/" \o id[2] \o "/" \o id[3] \o ".json")
  ELSE IF Len(id) >= 3 /\ id[1] = "javascript" /\ id[2] = "builtins"
    THEN IF StartsWithLowerLetter(id[3])
           THEN Return("javascript/builtins/globals.json")
         ELSE IF /\ Len(id) >= 4
                 /\ id[3] \in jsNamespaces
                 /\ id[3] # id[4]
                 /\ StartsWithUpperLetter(id[4])
           THEN Return("javascript/builtins/" \o id[3] \o "/" \o id[4] \o ".json")
           ELSE Return("javascript/builtins/" \o id[3] \o ".json")
  ELSE IF Len(id) >= 2 /\ id[1] = "webassembly"
    THEN Return("webassembly/" \o id[2] \o ".json")
  ELSE Throw("")

\* C1: getFilePath gives the outcome of the first matching rule, and throws
\* exactly when no rule matches.
C1_FirstMatchingRule ==
  pc = "path_done" =>
    /\ result.threw = C1_Outcome(ident).threw
    /\ ~result.threw => result.value = C1_Outcome(ident).value

\* the number of leading segments that the rule applying to an accepted path
\* keeps: 2 for api and webassembly, 3 for css, html, svg and mathml, 3 or 4
\* for javascript.builtins
C2_Kept(id) ==
  IF id[1] \in {"api", "webassembly"} THEN 2
  ELSE IF id[1] \in ThreeSegmentAreas THEN 3
  ELSE IF /\ ~startsWithLowerCase(id[3])
          /\ Len(id) >= 4
          /\ id[3] # id[4]
          /\ id[3] \in jsNamespaces
          /\ startsWithUpperCase(id[4])
    THEN 4
  ELSE 3

\* the accepted paths that share with id the segments its rule keeps
C2_SamePrefix(id) ==
  {q \in IdentPaths : /\ Len(q) >= C2_Kept(id)
                      /\ Take(q, C2_Kept(id)) = Take(id, C2_Kept(id))
                      /\ ~getFilePath(q).threw}

\* C2 as claimed: every accepted path that shares with an accepted path p the
\* n segments the rule of p keeps resolves to the file of p.
C2_FileOfKeptPrefix ==
  (pc = "path_done" /\ ~result.threw) =>
    \A q \in C2_SamePrefix(ident) : getFilePath(q) = result

\* C2 amended: every accepted path q that shares with an accepted path p the
\* n segments the rule of p keeps, and of which the rule keeps n segments too,
\* resolves to the file of p.  (Under javascript.builtins a path of which 3
\* segments are kept shares them with the members of the namespace, of which
\* 4 are kept and which have files of their own.)
C2_FileOfKeptPrefixSameLength ==
  (pc = "path_done" /\ ~result.threw) =>
    \A q \in C2_SamePrefix(ident) :
      C2_Kept(q) = C2_Kept(ident) => getFilePath(q) = result

\* a member of a namespace was resolved to its own file, and a longer path
\* shares its four segments
C2_Witness ==
  /\ pc = "path_done"
  /\ ~result.threw
  /\ C2_Kept(ident) = 4
  /\ Len(ident) = 4
  /\ \E q \in C2_SamePrefix(ident) : q # ident /\ C2_Kept(q) = 4

(***************************************************************************)
(* SpecMerge: recursiveAdd merges a leaf at pathP and a leaf at pathQ into *)
(* one tree, in either order; afterwards the caller may change one         *)
(* property of an object it holds.                                         *)
(***************************************************************************)
\* The longest path given to recursiveAdd.
MaxPathLen == 3

\* The segments tried at each position of a path: a feature name, a name
\* every object inherits, and the name of a field of the leaves.
MergeSegmentsAt(i) ==
  IF i <= 2 THEN {"a", "toString", "support"} ELSE {"a"}

RECURSIVE MergePathsOfLen(_)
MergePathsOfLen(n) ==
  IF n = 0 THEN {<<>>}
  ELSE {Append(p, s) : p \in MergePathsOfLen(n - 1), s \in MergeSegmentsAt(n)}

MergePaths == UNION {MergePathsOfLen(n) : n \in 1..MaxPathLen}

\* The two leaves: compatibility records.
LeafJsonA == JObj([support |-> JObj([chrome |-> JPrim("15")])])

LeafJsonB ==
  JObj([support |-> JObj([chrome |-> JPrim("20")]),
        status |-> JObj([deprecated |-> JPrim("false")])])

OldRecord == JObj([support |-> JObj([chrome |-> JPrim("1")])])

\* The trees tried: nested mappings.
InitialTrees ==
  { JEmpty,
    JObj([a |-> JObj([old |-> OldRecord])]),
    JObj([a |-> JEmpty, support |-> JObj([a |-> OldRecord])]),
    JObj([toString |-> JObj([a |-> OldRecord])]) }

InitMerge ==
  \E t \in InitialTrees :
    LET la == LoadJson(BuiltinHeap, LeafJsonA)
        lb == LoadJson(la.h, LeafJsonB)
        tr == LoadJson(lb.h, t)
    IN  /\ heap = tr.h
        /\ heapBefore = tr.h
        /\ heap0 = tr.h
        /\ tree = tr.v.a
        /\ leafP = la.v.a
        /\ leafQ \in {la.v.a, lb.v.a}
        /\ pathP \in MergePaths
        /\ pathQ \in MergePaths
        /\ merged = <<>>
        /\ lastOp = "none"
        /\ pc = "merge"
        /\ ident = <<>>
        /\ result = NotCalled
        /\ TraverseIdle

PathOf(w) == IF w = "P" THEN pathP ELSE pathQ

LeafOf(w) == IF w = "P" THEN leafP ELSE leafQ

\* recursiveAdd(path, 0, tree, leaf) called by the caller of the merge
MergeCall(w) ==
  LET r == recursiveAdd(heap, PathOf(w), 1, Ref(tree), Ref(LeafOf(w)))
  IN  /\ pc = "merge"
      /\ lastOp \in {"none", "merge"}
      /\ \A i \in 1..Len(merged) : merged[i] # w
      /\ heap' = r.h
      /\ heapBefore' = heap
      /\ merged' = Append(merged, w)
      /\ lastOp' = IF r.threw THEN "threw" ELSE "merge"
      /\ UNCHANGED <<pathVars, pc, heap0, tree, pathP, pathQ, leafP, leafQ, travVars>>

MergeP == MergeCall("P")

MergeQ == MergeCall("Q")

RECURSIVE Walk(_, _, _)
\* the address reached from object a through the own keys named by path, 0
\* when a key is missing or holds a primitive
Walk(h, a, path) ==
  IF path = <<>> THEN a
  ELSE IF a = 0 THEN 0
  ELSE IF HasOwn(h, a, Head(path)) /\ h[a].vals[Head(path)].t = "ref"
    THEN Walk(h, h[a].vals[Head(path)].a, Tail(path))
  ELSE 0

\* the objects that the own properties of object a refer to
RefsOf(h, a) ==
  {h[a].vals[k].a : k \in {j \in DOMAIN h[a].vals : h[a].vals[j].t = "ref"}}

RECURSIVE ReachableWithin(_, _, _)
\* the addresses reached from the addresses of S in at most fuel steps
ReachableWithin(h, S, fuel) ==
  LET next == S \cup UNION {RefsOf(h, a) : a \in S}
  IN  IF fuel = 0 \/ next = S THEN S ELSE ReachableWithin(h, next, fuel - 1)

\* the objects reachable from object a, a included
Reachable(h, a) == ReachableWithin(h, {a}, MaxDepth)

\* the merge made last
LastMerged == merged[Len(merged)]

\* the address of the value stored in the tree by the merge made last
StoredAt == Walk(heap, tree, PathOf(LastMerged))

\* target[k] = "changed", by the code that called recursiveAdd
Mutate(target, k, kind) ==
  /\ pc = "merge"
  /\ lastOp = "merge"
  /\ heap' = SetProp(heap, target, k, Prim("changed"))
  /\ heapBefore' = heap
  /\ lastOp' = kind
  /\ UNCHANGED <<pathVars, pc, heap0, tree, pathP, pathQ, leafP, leafQ, merged, travVars>>

\* the leaf object itself gets a field assigned
MutateLeafOwn == Mutate(LeafOf(LastMerged), "support", "mutLeafOwn")

\* an object the leaf refers to (its support map) gets a field assigned
MutateLeafNested ==
  /\ lastOp = "merge"
  /\ \E x \in Reachable(heap, LeafOf(LastMerged)) \ {LeafOf(LastMerged)} :
       Mutate(x, "chrome", "mutLeafNested")

\* the value stored in the tree gets a field assigned
MutateStoredOwn ==
  /\ lastOp = "merge"
  /\ StoredAt # 0
  /\ Mutate(StoredAt, "support", "mutStoredOwn")

\* an object the stored value refers to gets a field assigned
MutateStoredNested ==
  /\ lastOp = "merge"
  /\ StoredAt # 0
  /\ \E x \in Reachable(heap, StoredAt) \ {StoredAt} :
       Mutate(x, "chrome", "mutStoredNested")

NextMerge ==
  \/ MergeP
  \/ MergeQ
  \/ MutateLeafOwn
  \/ MutateLeafNested
  \/ MutateStoredOwn
  \/ MutateStoredNested

SpecMerge == InitMerge /\ [][NextMerge]_vars

(***************************************************************************)
(* Properties of recursiveAdd, checked under SpecMerge.                    *)
(***************************************************************************)
IsStrictPrefix(p, q) == Len(p) < Len(q) /\ Take(q, Len(p)) = p

PrefixRelated(p, q) == p = q \/ IsStrictPrefix(p, q) \/ IsStrictPrefix(q, p)

\* node is an object of its own that holds exactly the fields of leaf
IsCopyOf(h, node, leaf) ==
  /\ node # 0
  /\ node # leaf
  /\ h[node].kind = "object"
  /\ h[node].vals = h[leaf].vals

\* C3: recursiveAdd is total over non-empty paths.  After a call, every
\* segment of the path before the last leads, through the tree's own keys, to a
\* plain mapping: the one the tree held at that key before the call when it
\* held one, and otherwise a mapping the call created from the empty tree; and
\* the whole path leads to a copy of the leaf.  For every segment name,
\* toString included.
C3_TotalOverAnySegment ==
  lastOp = "merge" =>
    LET path == PathOf(LastMerged)
    IN  /\ \A i \in 1..(Len(path) - 1) :
             LET before == Walk(heapBefore, tree, Take(path, i))
                 after == Walk(heap, tree, Take(path, i))
             IN  /\ after # 0
                 /\ heap[after].kind = "object"
                 /\ IF before # 0 THEN after = before
                                  ELSE after \notin DOMAIN heapBefore
        /\ IsCopyOf(heap, Walk(heap, tree, path), LeafOf(LastMerged))

\* the value that the merge made last stored, as it was before the last step
StoredBefore == Walk(heapBefore, tree, PathOf(LastMerged))

\* the value stored by the other of the two merges, before the last step
OtherStoredBefore ==
  Walk(heapBefore, tree, PathOf(IF LastMerged = "P" THEN "Q" ELSE "P"))

SameValue(a) == Deep(heap, Ref(a)) = Deep(heapBefore, Ref(a))

\* C4 as claimed: after recursiveAdd no mutation of the leaf, of its own
\* fields or of an object reachable from it, changes the value stored in the
\* tree; no mutation of the stored value changes the leaf; and two entries
\* merged into the tree do not share state.
C4_NoSharedStateAtAll ==
  /\ lastOp \in {"mutLeafOwn", "mutLeafNested"} => SameValue(StoredBefore)
  /\ lastOp \in {"mutStoredOwn", "mutStoredNested"} =>
       /\ SameValue(LeafOf(LastMerged))
       /\ (Len(merged) = 2 /\ ~PrefixRelated(pathP, pathQ)) =>
            SameValue(OtherStoredBefore)

\* C4 amended: the copy is shallow.  The stored value is an object of its
\* own: assigning a field of the leaf object itself does not change the stored
\* value, and assigning a field of the stored object itself does not change
\* the fields of the leaf object.  The objects that the leaf's fields refer to
\* (its support map) are shared by the leaf and by every entry merged from it.
C4_ShallowCopyOnly ==
  /\ lastOp = "mutLeafOwn" => SameValue(StoredBefore)
  /\ lastOp = "mutStoredOwn" =>
       heap[LeafOf(LastMerged)] = heapBefore[LeafOf(LastMerged)]

\* the leaf was given a new field value after a merge stored its copy
C4_Witness ==
  /\ lastOp = "mutLeafOwn"
  /\ StoredBefore # 0
  /\ ~SameValue(LeafOf(LastMerged))
  /\ RefsOf(heapBefore, StoredBefore) = RefsOf(heapBefore, LeafOf(LastMerged))
  /\ RefsOf(heapBefore, StoredBefore) # {}

\* the heap had the two merges been made in the opposite order
OtherOrderHeap ==
  LET first == merged[2]
      second == merged[1]
      r1 == recursiveAdd(heap0, PathOf(first), 1, Ref(tree), Ref(LeafOf(first)))
  IN  recursiveAdd(r1.h, PathOf(second), 1, Ref(tree), Ref(LeafOf(second))).h

\* C5: merges at two paths of which neither is a prefix of the other commute:
\* the tree after both is the same mapping as after both in the opposite
\* order, and holds a copy of each leaf at its path.
C5_DisjointMergesCommute ==
  (Len(merged) = 2 /\ lastOp = "merge" /\ ~PrefixRelated(pathP, pathQ)) =>
    /\ Deep(heap, Ref(tree)) = Deep(OtherOrderHeap, Ref(tree))
    /\ IsCopyOf(heap, Walk(heap, tree, pathP), leafP)
    /\ IsCopyOf(heap, Walk(heap, tree, pathQ), leafQ)

\* C10 as claimed: with pathP a strict prefix of pathQ, after both merges in
\* either order, the value at pathP is the subtree leading to the leaf of
\* pathQ and holds none of the fields of the leaf of pathP.
C10_LeafReplacedBySubtree ==
  (Len(merged) = 2 /\ lastOp = "merge" /\ IsStrictPrefix(pathP, pathQ)) =>
    LET atP == Walk(heap, tree, pathP)
    IN  /\ atP # 0
        /\ DOMAIN heap[atP].vals = {pathQ[Len(pathP) + 1]}
        /\ IsCopyOf(heap, Walk(heap, tree, pathQ), leafQ)

\* C10 amended: with pathP a strict prefix of pathQ the outcome depends on the
\* order.  Merged at pathP first, the value at pathP keeps every field of its
\* leaf but the one named by the next segment of pathQ, and pathQ leads to a
\* copy of its leaf.  Merged at pathQ first, the value at pathP is a copy of
\* the leaf of pathP alone: the subtree of pathQ is discarded.
C10_PrefixOutcomeByOrder ==
  (Len(merged) = 2 /\ lastOp = "merge" /\ IsStrictPrefix(pathP, pathQ)) =>
    LET atP == Walk(heap, tree, pathP)
        nextSeg == pathQ[Len(pathP) + 1]
    IN  IF merged = <<"P", "Q">>
          THEN /\ atP # 0
               /\ \A k \in DOMAIN heap[leafP].vals \ {nextSeg} :
                    /\ HasOwn(heap, atP, k)
                    /\ heap[atP].vals[k] = heap[leafP].vals[k]
               /\ HasOwn(heap, atP, nextSeg)
               /\ IsCopyOf(heap, Walk(heap, tree, pathQ), leafQ)
          ELSE IsCopyOf(heap, atP, leafP)

\* an entry and then one of its descendants were merged: the entry holds its
\* leaf's fields and the descendant
C10_Witness ==
  /\ merged = <<"P", "Q">>
  /\ lastOp = "merge"
  /\ IsStrictPrefix(pathP, pathQ)
  /\ pathQ[Len(pathP) + 1] \notin DOMAIN heap[leafP].vals
  /\ DOMAIN heap[Walk(heap, tree, pathP)].vals =
       DOMAIN heap[leafP].vals \cup {pathQ[Len(pathP) + 1]}

(***************************************************************************)
(* SpecTraverse: traverseFeatures(data, []) over a candidate tree, writing *)
(* each supported node to its file with writeFile.  The calls of           *)
(* traverseFeatures in progress form a stack; a call awaits the writeFile  *)
(* or the traverseFeatures it started before it goes on.                   *)
(***************************************************************************)
\* Primitives: null, undefined and the booleans are the strings "null",
\* "undefined", "true" and "false"; any other string is a JavaScript string.
Truthy(v) == v.t = "ref" \/ v.v \notin {"null", "undefined", "false", ""}

\* s.version_added && !s.version_removed; a property of a string is undefined
StatementSupports(h, st) ==
  IF st.t # "ref" THEN FALSE
  ELSE /\ Truthy(GetProp(h, st.a, "version_added"))
       /\ ~Truthy(GetProp(h, st.a, "version_removed"))

\* Object.values(o): the values of the own properties, in their order
ObjectValues(h, a) == [i \in 1..Len(h[a].keys) |-> h[a].vals[h[a].keys[i]]]

\* (Array.isArray(statements) ? statements : [statements]).some(...)
StatementsSupport(h, sts) ==
  IF sts.t = "ref" /\ h[sts.a].kind = "array"
    THEN \E i \in 1..Len(h[sts.a].keys) :
           StatementSupports(h, ObjectValues(h, sts.a)[i])
    ELSE StatementSupports(h, sts)

\* the support test with version_removed left out
NodeSupported_IgnoringRemoved(h, node) ==
  LET compat == GetProp(h, node, "__compat")
      support == IF compat.t = "ref" THEN GetProp(h, compat.a, "support")
                 ELSE Undefined
  IN  /\ support.t = "ref"
      /\ \E i \in 1..Len(h[support.a].keys) :
           LET sts == ObjectValues(h, support.a)[i]
               one(st) == st.t = "ref" /\ Truthy(GetProp(h, st.a, "version_added"))
           IN  IF sts.t = "ref" /\ h[sts.a].kind = "array"
                 THEN \E j \in 1..Len(h[sts.a].keys) : one(ObjectValues(h, sts.a)[j])
                 ELSE one(sts)

\* whether the loop over Object.values(obj[i]?.__compat?.support) reaches the
\* call of writeFile
NodeSupported(h, node) ==
  LET compat == GetProp(h, node, "__compat")
      support == IF compat.t = "ref" THEN GetProp(h, compat.a, "support")
                 ELSE Undefined
  IN  /\ support.t = "ref"
      /\ \E i \in 1..Len(h[support.a].keys) :
           StatementsSupport(h, ObjectValues(h, support.a)[i])

\* !!obj[i] && typeof obj[i] == "object" && i !== "__compat"
IsFeatureNode(h, k, v) ==
  /\ v.t = "ref"
  /\ h[v.a].kind \in {"object", "array"}
  /\ k # "__compat"

\* the file as read by writeFile: {} when it does not exist
FileOrEmpty(fs, f) == IF f \in DOMAIN fs THEN fs[f] ELSE JEmpty

\* writeFile without the read of the existing file
ReadMergeWrite_NoRead(h, fs, f, id, node) ==
  LET data == LoadJson(h, JEmpty)
      r == recursiveAdd(data.h, Append(id, "__compat"), 1, data.v,
                        GetProp(data.h, node, "__compat"))
  IN  [h |-> r.h,
       threw |-> r.threw,
       fs |-> IF r.threw THEN fs
              ELSE (f :> Stringify(Deep(r.h, data.v))) @@ fs]

\* writeFile(ident, obj) past getFilePath: the existing file, if any, is read,
\* the node's __compat merged in and the result written.  Gives the heap and
\* the files afterwards and whether recursiveAdd threw.
ReadMergeWrite(h, fs, f, id, node) ==
  LET data == LoadJson(h, FileOrEmpty(fs, f))
      r == recursiveAdd(data.h, Append(id, "__compat"), 1, data.v,
                        GetProp(data.h, node, "__compat"))
  IN  [h |-> r.h,
       threw |-> r.threw,
       fs |-> IF r.threw THEN fs
              ELSE (f :> Stringify(Deep(r.h, data.v))) @@ fs]

\* a writeFile swallowed: the traversal goes on
AfterWriteFileError_GoOn == "trav"

\* where a call of traverseFeatures goes when the writeFile it awaits
\* rejects: it has no catch, so it rejects too
AfterWriteFileError == "unwind"

Frame(obj, prefix) == [obj |-> obj, prefix |-> prefix, idx |-> 1]

Top == stack[Len(stack)]

\* the key the loop of the innermost call is at
TopKey == heap[Top.obj].keys[Top.idx]

TopValue == heap[Top.obj].vals[TopKey]

\* the innermost call with its loop moved to the next key
Advanced == [stack EXCEPT ![Len(stack)].idx = @ + 1]

\* The compatibility records tried.
CompatUnknown ==
  JObj([support |-> JObj([chrome |-> JObj([version_added |-> JPrim("null")]),
                          firefox |-> JPrim("mirror")])])

CompatRemoved ==
  JObj([support |->
          JObj([chrome |-> JObj([version_added |-> JPrim("15"),
                                 version_removed |-> JPrim("20")])])])

CompatTrue ==
  JObj([support |-> JObj([chrome |-> JObj([version_added |-> JPrim("null")]),
                          firefox |-> JObj([version_added |-> JPrim("true")])]),
        status |-> JObj([deprecated |-> JPrim("false")])])

CompatArray ==
  JObj([support |->
          JObj([chrome |-> JArr(<<JObj([version_added |-> JPrim("15"),
                                        version_removed |-> JPrim("20")]),
                                   JObj([version_added |-> JPrim("30")])>>)])])

\* a node with the given children and, unless c is "none", the record c
Node(c, children) ==
  JObj(IF c = JPrim("none") THEN children ELSE ("__compat" :> c) @@ children)

NoCompat == JPrim("none")

AnyCompat == {NoCompat, CompatUnknown, CompatRemoved, CompatTrue, CompatArray}

\* The candidate trees tried: an interface with a member and a member named
\* toString that has a subfeature, a feature of an area getFilePath does not
\* know, and a WebAssembly feature.
Candidates ==
  { JObj([api |->
            JObj([A |-> Node(cA, [m |-> Node(cm, <<>>),
                                  toString |-> Node(NoCompat,
                                                    [n |-> Node(cn, <<>>)])])]),
          zzz |-> JObj([x |-> Node(cx, <<>>)]),
          webassembly |-> JObj([W |-> Node(cW, <<>>)])]) :
      cA \in AnyCompat, cm \in {NoCompat, CompatTrue, CompatArray},
      cn \in {NoCompat, CompatTrue},
      cx \in {CompatUnknown, CompatTrue},
      cW \in {NoCompat, CompatTrue} }

\* The BCD directory at the start: without the interface's file, or with one
\* that holds the interface, a member with a record and a subfeature, and
\* another member.
InitialFiles ==
  { <<>>,
    "api/A.json" :>
      JObj([api |->
        JObj([A |->
          JObj([__compat |-> OldRecord,
                m |-> JObj([__compat |-> OldRecord,
                            old |-> JObj([__compat |-> OldRecord])]),
                old |-> JObj([__compat |-> OldRecord])])])]) }

InitTraverse ==
  \E c \in Candidates, fs \in InitialFiles :
    LET data == LoadJson(BuiltinHeap, c)
    IN  /\ candidate = c
        /\ heap = data.h
        /\ files = fs
        /\ filesBefore = fs
        /\ stack = <<Frame(data.v.a, <<>>)>>
        /\ pending = <<>>
        /\ visited = <<>>
        /\ calls = <<>>
        /\ pc = "trav"
        /\ ident = <<>>
        /\ result = NotCalled
        /\ heapBefore = <<>>
        /\ MergeIdle

travFixed == <<pathVars, heapBefore, heap0, tree, pathP, pathQ, leafP, leafQ,
               merged, lastOp, candidate>>

\* the loop is at a key that is no feature node: next key
SkipKey ==
  /\ pc = "trav"
  /\ Top.idx <= Len(heap[Top.obj].keys)
  /\ ~IsFeatureNode(heap, TopKey, TopValue)
  /\ stack' = Advanced
  /\ filesBefore' = files
  /\ UNCHANGED <<travFixed, pc, heap, files, pending, visited, calls>>

\* the loop is at a supported node: writeFile is called and awaited
VisitSupported ==
  /\ pc = "trav"
  /\ Top.idx <= Len(heap[Top.obj].keys)
  /\ IsFeatureNode(heap, TopKey, TopValue)
  /\ NodeSupported(heap, TopValue.a)
  /\ pending' = <<[ident |-> Append(Top.prefix, TopKey), node |-> TopValue.a]>>
  /\ visited' = Append(visited, Append(Top.prefix, TopKey))
  /\ pc' = "write"
  /\ filesBefore' = files
  /\ UNCHANGED <<travFixed, heap, files, stack, calls>>

\* the loop is at a node that is not supported: traverseFeatures is called on it
VisitUnsupported ==
  /\ pc = "trav"
  /\ Top.idx <= Len(heap[Top.obj].keys)
  /\ IsFeatureNode(heap, TopKey, TopValue)
  /\ ~NodeSupported(heap, TopValue.a)
  /\ visited' = Append(visited, Append(Top.prefix, TopKey))
  /\ stack' = Append(Advanced, Frame(TopValue.a, Append(Top.prefix, TopKey)))
  /\ filesBefore' = files
  /\ UNCHANGED <<travFixed, pc, heap, files, pending, calls>>

\* writeFile resolves: the file is read, merged and written, and
\* traverseFeatures is called on the node
WriteFileDone ==
  /\ pc = "write"
  /\ LET id == pending[1].ident
         f == getFilePath(id)
         w == ReadMergeWrite(heap, files, f.value, id, pending[1].node)
     IN  /\ ~f.threw
         /\ ~w.threw
         /\ heap' = w.h
         /\ files' = w.fs
         /\ calls' = Append(calls, [ident |-> id, threw |-> FALSE, file |-> f.value])
         /\ stack' = Append(Advanced, Frame(pending[1].node, id))
  /\ filesBefore' = files
  /\ pending' = <<>>
  /\ pc' = "trav"
  /\ UNCHANGED <<travFixed, visited>>

\* writeFile rejects: getFilePath threw before any file was read
WriteFileFails ==
  /\ pc = "write"
  /\ LET id == pending[1].ident
         f == getFilePath(id)
         w == ReadMergeWrite(heap, files, f.value, id, pending[1].node)
     IN  /\ f.threw \/ w.threw
         /\ calls' = Append(calls, [ident |-> id, threw |-> TRUE,
                                    file |-> IF f.threw THEN "" ELSE f.value])
  /\ filesBefore' = files
  /\ pending' = <<>>
  /\ pc' = AfterWriteFileError
  /\ stack' = IF AfterWriteFileError = "trav" THEN Advanced ELSE stack
  /\ UNCHANGED <<travFixed, heap, files, visited>>

\* the loop of the innermost call is over: it resolves
ReturnFromCall ==
  /\ pc = "trav"
  /\ Top.idx > Len(heap[Top.obj].keys)
  /\ stack' = SubSeq(stack, 1, Len(stack) - 1)
  /\ pc' = IF Len(stack) = 1 THEN "trav_done" ELSE "trav"
  /\ filesBefore' = files
  /\ UNCHANGED <<travFixed, heap, files, pending, visited, calls>>

\* the innermost call rejects with the error of the call it awaited
Unwind ==
  /\ pc = "unwind"
  /\ stack' = SubSeq(stack, 1, Len(stack) - 1)
  /\ pc' = IF Len(stack) = 1 THEN "trav_threw" ELSE "unwind"
  /\ filesBefore' = files
  /\ UNCHANGED <<travFixed, heap, files, pending, visited, calls>>

NextTraverse ==
  \/ SkipKey
  \/ VisitSupported
  \/ VisitUnsupported
  \/ WriteFileDone
  \/ WriteFileFails
  \/ ReturnFromCall
  \/ Unwind

SpecTraverse == InitTraverse /\ [][NextTraverse]_vars

(***************************************************************************)
(* The claims on traverseFeatures and writeFile, stated on the candidate   *)
(* tree and on the files as JSON values.                                   *)
(***************************************************************************)
Missing == JPrim("undefined")

RECURSIVE JsonAt(_, _)
\* the value at a path of a JSON value, Missing if the path leaves it
JsonAt(j, path) ==
  IF path = <<>> THEN j
  ELSE IF j.t = "obj" /\ Head(path) \in DOMAIN j.m
    THEN JsonAt(j.m[Head(path)], Tail(path))
  ELSE Missing

JsonTruthy(j) == j.t # "prim" \/ j.v \notin {"null", "undefined", "false", ""}

\* a statement with truthy version_added and falsy version_removed
AddedNotRemoved(st) ==
  /\ st.t = "obj"
  /\ JsonTruthy(JsonAt(st, <<"version_added">>))
  /\ ~JsonTruthy(JsonAt(st, <<"version_removed">>))

\* an environment counts: a single statement is a one-element sequence
EnvironmentCounts(sts) ==
  IF sts.t = "arr" THEN \E i \in 1..Len(sts.e) : AddedNotRemoved(sts.e[i])
  ELSE AddedNotRemoved(sts)

\* at least one environment of the node's __compat.support counts
SupportedNode(node) ==
  LET support == JsonAt(node, <<"__compat", "support">>)
  IN  /\ support.t = "obj"
      /\ \E env \in DOMAIN support.m : EnvironmentCounts(support.m[env])

RECURSIVE NodePaths(_, _)
\* the paths of the nodes of a tree: its objects outside the __compat records
NodePaths(j, prefix) ==
  IF j.t # "obj" THEN {}
  ELSE UNION { {Append(prefix, k)} \cup NodePaths(j.m[k], Append(prefix, k)) :
               k \in {c \in DOMAIN j.m : c # "__compat" /\ j.m[c].t = "obj"} }

\* how many times writeFile has been called for the node at path id
WritesOf(id) ==
  Cardinality({i \in 1..Len(calls) : calls[i].ident = id})
    + (IF pending # <<>> /\ pending[1].ident = id THEN 1 ELSE 0)

\* C6: every node is visited at most once, and writeFile (the file
\* resolution and the read, merge and write) is called exactly once for a
\* visited node of which at least one environment has a statement with truthy
\* version_added and falsy version_removed, and never for another node; a
\* traversal that completes has visited every node of the candidate tree.
C6_WriteIffSupported ==
  /\ \A i \in 1..Len(visited) :
       /\ visited[i] \in NodePaths(candidate, <<>>)
       /\ \A j \in 1..Len(visited) : visited[i] = visited[j] => i = j
       /\ WritesOf(visited[i]) =
            IF SupportedNode(JsonAt(candidate, visited[i])) THEN 1 ELSE 0
  /\ pc = "trav_done" =>
       NodePaths(candidate, <<>>) = {visited[i] : i \in 1..Len(visited)}

\* a completed traversal of a tree with a removed feature (no write), a
\* feature with a sequence of statements (one write) and one with
\* {version_added: null} alone (no write)
C6_Witness ==
  /\ pc = "trav_done"
  /\ JsonAt(candidate, <<"api", "A", "__compat">>) = CompatRemoved
  /\ JsonAt(candidate, <<"api", "A", "m", "__compat">>) = CompatArray
  /\ JsonAt(candidate, <<"zzz", "x", "__compat">>) = CompatUnknown
  /\ WritesOf(<<"api", "A">>) = 0
  /\ WritesOf(<<"api", "A", "m">>) = 1
  /\ WritesOf(<<"zzz", "x">>) = 0

\* C7: when traverseFeatures completes without error, for every supported
\* node of the candidate tree the file getFilePath gives for the node's path
\* holds, at that path followed by "__compat", a record equal to the node's
\* __compat.
C7_NoLostUpdate ==
  pc = "trav_done" =>
    \A id \in NodePaths(candidate, <<>>) :
      SupportedNode(JsonAt(candidate, id)) =>
        /\ ~getFilePath(id).threw
        /\ getFilePath(id).value \in DOMAIN files
        /\ JsonAt(files[getFilePath(id).value], Append(id, "__compat"))
             = JsonAt(candidate, Append(id, "__compat"))

RECURSIVE ChainTo(_, _, _)
\* j holds nothing but the chain of the segments of path from position i on
ChainTo(j, path, i) ==
  \/ i > Len(path)
  \/ /\ j.t = "obj"
     /\ DOMAIN j.m \subseteq {path[i]}
     /\ \A k \in DOMAIN j.m : ChainTo(j.m[k], path, i + 1)

RECURSIVE Preserved(_, _, _, _)
\* new holds every key of old with an equal value, except along path from
\* position i on, and holds no other key than those of old and of the path
Preserved(old, new, path, i) ==
  \/ i > Len(path)
  \/ /\ old.t = "obj"
     /\ new.t = "obj"
     /\ \A k \in DOMAIN old.m :
          /\ k \in DOMAIN new.m
          /\ IF k = path[i] THEN Preserved(old.m[k], new.m[k], path, i + 1)
             ELSE new.m[k] = old.m[k]
     /\ \A k \in DOMAIN new.m \ DOMAIN old.m :
          /\ k = path[i]
          /\ ChainTo(new.m[k], path, i + 1)

\* C8: a writeFile that completes for the node at path p changes the target
\* file's tree only at the slot p followed by "__compat": every other key and
\* value the file held is present and equal afterwards, no key is added off
\* the way to the slot, and no other file is changed, added or removed.
C8_FrameOfWrite ==
  [][ (pc = "write" /\ pc' = "trav" /\ calls' # calls /\ ~calls'[Len(calls')].threw) =>
        LET id == pending[1].ident
            f == getFilePath(id).value
        IN  /\ DOMAIN files' = DOMAIN files \cup {f}
            /\ \A g \in DOMAIN files : g # f => files'[g] = files[g]
            /\ Preserved(FileOrEmpty(files, f), files'[f],
                         Append(id, "__compat"), 1) ]_vars

\* the member m has just been written to the interface's file, which held
\* the interface's record, a record and a subfeature of m and another member
C8_Witness ==
  /\ calls # <<>>
  /\ calls[Len(calls)] = [ident |-> <<"api", "A", "m">>, threw |-> FALSE,
                          file |-> "api/A.json"]
  /\ "api/A.json" \in DOMAIN filesBefore
  /\ JsonAt(filesBefore["api/A.json"], <<"api", "A", "m", "old">>) # Missing
  /\ JsonAt(filesBefore["api/A.json"], <<"api", "A", "old">>) # Missing
  /\ files # filesBefore
  /\ JsonAt(files["api/A.json"], <<"api", "A", "m", "__compat">>)
       = JsonAt(candidate, <<"api", "A", "m", "__compat">>)

\* the traversal has failed or is failing
Failing == pc \in {"unwind", "trav_threw"}

\* C9: a writeFile fails exactly for a supported node whose path matches no
\* rule of getFilePath, before any file is read or written for it; from
\* then on the traversal only fails: the failing node is the last node
\* visited and the last for which writeFile is called, the files stay as the
\* earlier writes left them, and a traversal that completes had no failure.
C9_FailureAborts ==
  /\ \A i \in 1..Len(calls) :
       /\ calls[i].threw <=> getFilePath(calls[i].ident).threw
       /\ calls[i].threw =>
            /\ SupportedNode(JsonAt(candidate, calls[i].ident))
            /\ calls[i].file = ""
            /\ i = Len(calls)
            /\ Failing
            /\ visited[Len(visited)] = calls[i].ident
            /\ pending = <<>>
            /\ files = filesBefore
  /\ \A i \in 1..Len(visited) :
       ~SupportedNode(JsonAt(candidate, visited[i])) => WritesOf(visited[i]) = 0
  /\ Failing => calls # <<>> /\ calls[Len(calls)].threw
  /\ pc = "trav_threw" => stack = <<>>

\* the traversal has failed at zzz.x after the interface and its member were
\* written, with the WebAssembly feature, which is supported, never visited
C9_Witness ==
  /\ pc = "trav_threw"
  /\ Len(calls) = 3
  /\ calls[3].ident = <<"zzz", "x">>
  /\ calls[3].threw
  /\ JsonAt(files["api/A.json"], <<"api", "A", "m", "__compat">>)
       = JsonAt(candidate, <<"api", "A", "m", "__compat">>)
  /\ SupportedNode(JsonAt(candidate, <<"webassembly", "W">>))
  /\ \A i \in 1..Len(visited) : visited[i] # <<"webassembly", "W">>

=============================================================================
